---- MODULE Spec2Model ----
(***************************************************************************)
(* Model of the animation and asset-loading core of the 3D product viewer: *)
(*   - clearEvents                (utility/ProductItemUtility.ts)          *)
(*   - MaterialColorChanger       (MaterialAnimators/MaterialColorChanger) *)
(*   - MeshLoader                 (3D/MeshLoader.ts)                       *)
(* createAnimation and EnvironmentMapLoader are imported by these files    *)
(* but their code is not part of the sources at hand; they are modelled    *)
(* from sections 4.2 and 4.4 of the specification.                         *)
(***************************************************************************)
EXTENDS Integers, Sequences, FiniteSets, TLC

----------------------------------------------------------------------------
(* Bounds of the model.                                                    *)

\* Calls of changeColorLinearly and of createAnimation by other subsystems
\* in one behaviour.
MaxCalls == 2
\* Calls of loadMesh in one behaviour.
MaxLoads == 2
\* The clock stops advancing once it has reached this many milliseconds.
MaxTime == 375
\* Binary floating point: a number is  n / 2^UnitBits  and keeps MantBits
\* significant bits (IEEE-754 double has 53; the rounding rule is the same).
MantBits == 3
UnitBits == 4

----------------------------------------------------------------------------
(* Numbers.  JavaScript numbers are binary floating-point values; every    *)
(* arithmetic operation rounds its exact result to the nearest             *)
(* representable value, ties to the even significand.                      *)

RECURSIVE Pow2(_)
Pow2(k) == IF k = 0 THEN 1 ELSE 2 * Pow2(k - 1)

\* 1.0 in units of the grid.
Unit == Pow2(UnitBits)

Abs(x) == IF x < 0 THEN -x ELSE x

RECURSIVE OddPart(_)
OddPart(n) == IF n = 0 THEN 0 ELSE IF n % 2 = 0 THEN OddPart(n \div 2) ELSE n

\* n is representable when its significand fits in MantBits bits.
Representable(n) == OddPart(Abs(n)) < Pow2(MantBits)

\* The exponent of the rational a / b (b > 0): the least k >= 0 such that
\* |a / b| < 2^(MantBits + k); values below 2^MantBits grid units are on the
\* grid itself (the subnormal range).
RECURSIVE Exponent(_, _, _)
Exponent(a, b, k) ==
  IF Abs(a) < b * Pow2(MantBits + k) THEN k ELSE Exponent(a, b, k + 1)

\* The integer nearest to the rational n / d (d > 0), ties to even.
RoundHalfEven(n, d) ==
  LET fl == n \div d
      rem == n - fl * d
  IN  IF 2 * rem < d THEN fl
      ELSE IF 2 * rem > d THEN fl + 1
      ELSE IF fl % 2 = 0 THEN fl ELSE fl + 1

\* The representable value nearest to the rational a / b (b > 0), in grid
\* units; on a tie the neighbour with the even significand.
RoundQ(a, b) ==
  LET g == Pow2(Exponent(a, b, 0))
  IN  g * RoundHalfEven(a, b * g)

FAdd(x, y) == RoundQ(x + y, 1)
FSub(x, y) == RoundQ(x - y, 1)
FMul(x, y) == RoundQ(x * y, Unit)
FDiv(x, y) == RoundQ(x * Unit, y)

Clamp01(x) == IF x < 0 THEN 0 ELSE IF x > Unit THEN Unit ELSE x

----------------------------------------------------------------------------
(* The scene the color changer works on.                                   *)

NoValue == "undefined"

\* Durations changeColorLinearly is called with: MaterialAnimationType.None,
\* MaterialAnimationType.Linear, and a negative value (the method is public).
NoneDuration == 0
LinearDuration == 250
Durations == {-LinearDuration, NoneDuration, LinearDuration}

\* Milliseconds that may pass between two frames.
FrameSteps == {125}

Materials == {"m1", "m2", "m3"}
\* Materials for which isColorMaterial holds ("supports flat color").
ColorMaterials == {"m1", "m2"}
isColorMaterial(material) == material \in ColorMaterials

\* Object3D.traverse visits the object itself and then every descendant.
SceneOrder == <<"root", "meshA", "group", "meshB">>
isMesh(o) == o \in {"meshA", "meshB"}
\* mesh.material is one material or an array of materials.
MeshMaterial(o) == IF o = "meshA" THEN "m1" ELSE <<"m2", "m3">>
IsArray(o) == o = "meshB"

Black == <<0, 0, 0>>
White == <<Unit, Unit, Unit>>
Red == <<Unit, 0, 0>>
Dim == <<1, Unit \div 2, Unit>>
\* The colors the materials of the scene are created with.
InitialColor == [m \in ColorMaterials |-> IF m = "m1" THEN Black ELSE White]

\* MaterialColorSwapEventData: optional materials, optional rootObject.
\* The scenario of section 8 (one explicit material, to red); a subtree to
\* search, which holds a group, a multi-material mesh and a material without
\* a color; and a material list in which nothing qualifies.
Events ==
  { [materials |-> <<"m1">>, hasMaterials |-> TRUE, hasRootObject |-> FALSE,
     targetColor |-> Red],
    [materials |-> <<>>, hasMaterials |-> FALSE, hasRootObject |-> TRUE,
     targetColor |-> Dim],
    [materials |-> <<"m3">>, hasMaterials |-> TRUE, hasRootObject |-> FALSE,
     targetColor |-> Red] }

\* ActiveProductItemEventType
EventTypes == {"ColorChange", "Other"}

AnimIds == 1..MaxCalls

VARIABLES
  now,            \* the host clock, in milliseconds
  materialColor,  \* material.color of every color material
  activeEvents,   \* productItem.activeEvents: sequence of animation handles
  anims,          \* the closure state of every animation created so far
  requested,      \* frame callbacks requested for the next frame, in order
  running,        \* callbacks of the current frame that have not run yet
  calls           \* number of changeColorLinearly and createAnimation calls made

animVars ==
  <<now, materialColor, activeEvents, anims, requested, running, calls>>

----------------------------------------------------------------------------
(* MaterialColorChanger                                                    *)

\* tryAddAnimatableItems: one item per color material, in order; the start
\* color is a clone of the material's color and the delta is computed once.
RECURSIVE tryAddAnimatableItems(_, _, _, _)
tryAddAnimatableItems(materials, items, targetColor, colors) ==
  IF materials = <<>> THEN items
  ELSE LET material == Head(materials)
           rest == Tail(materials)
       IN  IF ~isColorMaterial(material)
             THEN tryAddAnimatableItems(rest, items, targetColor, colors)
             ELSE LET c == colors[material]
                      deltaColor == <<FSub(targetColor[1], c[1]),
                                      FSub(targetColor[2], c[2]),
                                      FSub(targetColor[3], c[3])>>
                  IN  tryAddAnimatableItems(rest,
                        Append(items, [material |-> material,
                                       startColor |-> c,
                                       deltaColor |-> deltaColor]),
                        targetColor, colors)

\* The traverse callback of getAnimatableItems, over the nodes in visit order.
RECURSIVE TraverseItems(_, _, _, _)
TraverseItems(nodes, items, targetColor, colors) ==
  IF nodes = <<>> THEN items
  ELSE LET o == Head(nodes)
       IN  IF ~isMesh(o)
             THEN TraverseItems(Tail(nodes), items, targetColor, colors)
             ELSE LET materials == IF IsArray(o) THEN MeshMaterial(o)
                                                 ELSE <<MeshMaterial(o)>>
                  IN  TraverseItems(Tail(nodes),
                        tryAddAnimatableItems(materials, items, targetColor, colors),
                        targetColor, colors)

getAnimatableItems(event, colors) ==
  LET fromList == IF event.hasMaterials
                    THEN tryAddAnimatableItems(event.materials, <<>>,
                                               event.targetColor, colors)
                    ELSE <<>>
  IN  IF event.hasRootObject
        THEN TraverseItems(SceneOrder, fromList, event.targetColor, colors)
        ELSE fromList

\* The color doProgress gives one item at the given progress.
ItemColor(item, progress) ==
  <<FAdd(item.startColor[1], FMul(progress, item.deltaColor[1])),
    FAdd(item.startColor[2], FMul(progress, item.deltaColor[2])),
    FAdd(item.startColor[3], FMul(progress, item.deltaColor[3]))>>

\* The loop of doProgress left after its first item.
doProgressFirstOnly(items, progress, colors) ==
  IF items = <<>> THEN colors
  ELSE [colors EXCEPT ![Head(items).material] = ItemColor(Head(items), progress)]

\* doProgress: material.color.setRGB for every item, in order.
RECURSIVE doProgress(_, _, _)
doProgress(items, progress, colors) ==
  IF items = <<>> THEN colors
  ELSE doProgress(Tail(items), progress,
         [colors EXCEPT ![Head(items).material] = ItemColor(Head(items), progress)])

----------------------------------------------------------------------------
(* createAnimation (the Animation Driver of section 4.2).                  *)

NoAnim ==
  [state |-> "None", type |-> NoValue, duration |-> 0, startTime |-> 0,
   items |-> <<>>, target |-> <<>>, log |-> <<>>]

Created == {a \in AnimIds : anims[a].state # "None"}
InFlight(a) == anims[a].state \in {"Pending", "Running"}
NextAnim == Cardinality(Created) + 1
CreatedOfType(type) == {a \in Created : anims[a].type = type}

\* The part of the state a synchronous call chain works on.
Here ==
  [anims |-> anims, colors |-> materialColor, events |-> activeEvents,
   requested |-> requested]

\* onProgress(progress) of animation a: the callback runs and is logged.
OnProgress(a, progress, st) ==
  [st EXCEPT !.anims[a].log = Append(@, progress),
             !.colors = IF st.anims[a].type = "ColorChange"
                          THEN doProgress(st.anims[a].items, progress, @)
                          ELSE @]

\* cancel(snapToFinal): from Pending or Running, onProgress(1) when asked,
\* then Cancelled; on a finished animation nothing happens.
cancelEvent(a, completeEvent, st) ==
  IF st.anims[a].state \notin {"Pending", "Running"} THEN st
  ELSE LET after == IF completeEvent THEN OnProgress(a, Unit, st) ELSE st
       IN  [after EXCEPT !.anims[a].state = "Cancelled"]

\* createAnimation registers the active event and returns the tick function.
createAnimation(a, type, duration, items, target, st) ==
  [st EXCEPT !.anims[a] =
               [state |-> "Pending", type |-> type, duration |-> duration,
                startTime |-> 0, items |-> items, target |-> target,
                log |-> <<>>],
             !.events = Append(@, a)]

\* requestAnimationFrame(animate): the callback joins the list of callbacks
\* the host runs at the next frame.
requestAnimationFrame(a, st) == [st EXCEPT !.requested = Append(@, a)]

Remove(seq, x) == SelectSeq(seq, LAMBDA y : y # x)

\* The frame callback without the test that the animation is still in
\* flight: a cancelled animation goes on as if it were running.
animateAfterCancel(a, st) ==
  LET progress == Clamp01(FDiv(now - st.anims[a].startTime, st.anims[a].duration))
      told == OnProgress(a, progress, st)
  IN  IF progress < Unit
        THEN [told EXCEPT !.requested = Append(@, a)]
        ELSE [told EXCEPT !.anims[a].state = "Completed",
                          !.events = SelectSeq(@, LAMBDA y : y # a)]

\* The frame callback without the clamp of the progress to [0, 1].
animateUnclamped(a, st) ==
  IF st.anims[a].state \notin {"Pending", "Running"} THEN st
  ELSE LET started == IF st.anims[a].state = "Pending"
                            THEN [st EXCEPT !.anims[a].state = "Running",
                                            !.anims[a].startTime = now]
                            ELSE st
           progress == FDiv(now - started.anims[a].startTime,
                            started.anims[a].duration)
           told == OnProgress(a, progress, started)
       IN  IF progress < Unit
             THEN requestAnimationFrame(a, told)
             ELSE [told EXCEPT !.anims[a].state = "Completed",
                               !.events = SelectSeq(@, LAMBDA y : y # a)]

\* animate: one frame callback of animation a.
animate(a, st) ==
  IF st.anims[a].state \notin {"Pending", "Running"} THEN st
  ELSE LET started == IF st.anims[a].state = "Pending"
                            THEN [st EXCEPT !.anims[a].state = "Running",
                                            !.anims[a].startTime = now]
                            ELSE st
           progress == Clamp01(FDiv(now - started.anims[a].startTime,
                                    started.anims[a].duration))
           told == OnProgress(a, progress, started)
       IN  IF progress < Unit
             THEN requestAnimationFrame(a, told)
             ELSE [told EXCEPT !.anims[a].state = "Completed",
                               !.events = Remove(@, a)]

Commit(st) ==
  /\ anims' = st.anims
  /\ materialColor' = st.colors
  /\ activeEvents' = st.events
  /\ requested' = st.requested

----------------------------------------------------------------------------
(* clearEvents (ProductItemUtility.ts).                                    *)

\* activeEvents.splice(i, 1), with i counted from 0.
Splice(seq, i) == SubSeq(seq, 1, i) \o SubSeq(seq, i + 2, Len(seq))

\* The loop without the test on the event's type: every entry is cancelled
\* and removed.
RECURSIVE clearLoopEveryEntry(_, _, _, _)
clearLoopEveryEntry(i, types, completeEvent, lst) ==
  IF ~(i < Len(lst.st.events)) THEN lst
  ELSE LET event == lst.st.events[i + 1]
           cancelled == cancelEvent(event, completeEvent, lst.st)
           call == [anim |-> event, flag |-> completeEvent, listed |-> TRUE]
       IN  clearLoopEveryEntry(i, types, completeEvent,
             [st |-> [cancelled EXCEPT !.events = Splice(@, i)],
              calls |-> Append(lst.calls, call)])

\* The loop with the index advanced after a removal as well: the entry that
\* follows a removed one is skipped.
RECURSIVE clearLoopSkipNext(_, _, _, _)
clearLoopSkipNext(i, types, completeEvent, lst) ==
  IF ~(i < Len(lst.st.events)) THEN lst
  ELSE LET event == lst.st.events[i + 1]
       IN  IF lst.st.anims[event].type \notin types
             THEN clearLoopSkipNext(i + 1, types, completeEvent, lst)
             ELSE LET cancelled == cancelEvent(event, completeEvent, lst.st)
                      call == [anim |-> event, flag |-> completeEvent, listed |-> TRUE]
                  IN  clearLoopSkipNext(i + 1, types, completeEvent,
                        [st |-> [cancelled EXCEPT !.events = Splice(@, i)],
                         calls |-> Append(lst.calls, call)])

\* The for loop of clearEvents from index i on.  calls records, in order,
\* every cancelEvent call and whether its entry was in the list when called.
RECURSIVE clearLoop(_, _, _, _)
clearLoop(i, types, completeEvent, lst) ==
  IF ~(i < Len(lst.st.events)) THEN lst
  ELSE LET event == lst.st.events[i + 1]
       IN  IF lst.st.anims[event].type \notin types
             THEN clearLoop(i + 1, types, completeEvent, lst)
             ELSE LET cancelled == cancelEvent(event, completeEvent, lst.st)
                      call == [anim |-> event, flag |-> completeEvent,
                               listed |-> \E k \in 1..Len(cancelled.events) :
                                             cancelled.events[k] = event]
                  IN  clearLoop(i, types, completeEvent,
                        [st |-> [cancelled EXCEPT !.events = Splice(@, i)],
                         calls |-> Append(lst.calls, call)])

clearEvents(types, completeEvent, st) ==
  clearLoop(0, types, completeEvent, [st |-> st, calls |-> <<>>])

----------------------------------------------------------------------------
(* The operations of the animation core.  Execution is single-threaded: an *)
(* event handler runs between two frames, never between two callbacks of   *)
(* the same frame.                                                         *)

BetweenFrames == running = <<>>

\* changeColorLinearly without its last line: the animation is created and
\* no frame is requested for it.
ChangeColorLinearlyNoFrame(event, duration) ==
  LET items == getAnimatableItems(event, materialColor)
  IN  /\ BetweenFrames
      /\ calls < MaxCalls
      /\ calls' = calls + 1
      /\ IF duration <= 0
           THEN /\ materialColor' = doProgress(items, Unit, materialColor)
                /\ UNCHANGED <<anims, activeEvents, requested>>
           ELSE Commit(createAnimation(NextAnim, "ColorChange", duration, items,
                                       event.targetColor, Here))
      /\ UNCHANGED <<now, running>>

\* changeColorLinearly with a return added for an empty list of items.
ChangeColorLinearlyUnlessEmpty(event, duration) ==
  LET items == getAnimatableItems(event, materialColor)
  IN  /\ BetweenFrames
      /\ calls < MaxCalls
      /\ calls' = calls + 1
      /\ IF duration <= 0 \/ items = <<>>
           THEN /\ materialColor' = doProgress(items, Unit, materialColor)
                /\ UNCHANGED <<anims, activeEvents, requested>>
           ELSE Commit(requestAnimationFrame(NextAnim,
                  createAnimation(NextAnim, "ColorChange", duration, items,
                                  event.targetColor, Here)))
      /\ UNCHANGED <<now, running>>

\* changeColorLinearly(event, duration)
ChangeColorLinearly(event, duration) ==
  LET items == getAnimatableItems(event, materialColor)
  IN  /\ BetweenFrames
      /\ calls < MaxCalls
      /\ calls' = calls + 1
      /\ IF duration <= 0
           THEN /\ materialColor' = doProgress(items, Unit, materialColor)
                /\ UNCHANGED <<anims, activeEvents, requested>>
           ELSE Commit(requestAnimationFrame(NextAnim,
                  createAnimation(NextAnim, "ColorChange", duration, items,
                                  event.targetColor, Here)))
      /\ UNCHANGED <<now, running>>

\* The duration other subsystems animate with: one the frame times do not
\* divide, so that the last tick finds more time elapsed than the duration.
OtherDuration == LinearDuration - 50

\* Another subsystem starts an animation of another category on the item.
CreateOtherAnimation ==
  /\ BetweenFrames
  /\ calls < MaxCalls
  /\ calls' = calls + 1
  /\ Commit(requestAnimationFrame(NextAnim,
       createAnimation(NextAnim, "Other", OtherDuration, <<>>, <<>>, Here)))
  /\ UNCHANGED <<now, running>>

\* A frame begins: time has passed, and the host will run every callback
\* requested so far, in the order of the requests.
BeginFrame ==
  /\ BetweenFrames
  /\ \E dt \in FrameSteps : now + dt <= MaxTime /\ now' = now + dt
  /\ running' = requested
  /\ requested' = <<>>
  /\ UNCHANGED <<materialColor, activeEvents, anims, calls>>

\* The host runs the next callback of the current frame.
Tick ==
  /\ running # <<>>
  /\ Commit(animate(Head(running), Here))
  /\ running' = Tail(running)
  /\ UNCHANGED <<now, calls>>

\* clearEvents(productItem, types, completeEvent)
ClearEvents(types, completeEvent) ==
  LET done == clearEvents(types, completeEvent, Here)
  IN  /\ BetweenFrames
      /\ Commit(done.st)
      /\ UNCHANGED <<now, running, calls>>

\* A holder of the active event calls its cancel directly.
DirectCancel(a, completeEvent) ==
  /\ BetweenFrames
  /\ a \in Created
  /\ Commit(cancelEvent(a, completeEvent, Here))
  /\ UNCHANGED <<now, running, calls>>

----------------------------------------------------------------------------
(* MeshLoader: the asset loader pipeline.                                  *)

\* Characters toLowerCase changes, among those the file names use.
LowerOf ==
  [c \in {"O", "B", "J", "G", "L", "T", "F"} |->
     CASE c = "O" -> "o" [] c = "B" -> "b" [] c = "J" -> "j" [] c = "G" -> "g"
       [] c = "L" -> "l" [] c = "T" -> "t" [] c = "F" -> "f"]

\* String.prototype.toLowerCase, on a sequence of characters.
toLowerCase(str) ==
  [k \in 1..Len(str) |-> IF str[k] \in DOMAIN LowerOf THEN LowerOf[str[k]] ELSE str[k]]

\* String.prototype.split("."): parts is the list of finished parts and
\* part the one being read.
RECURSIVE SplitFrom(_, _, _)
SplitFrom(str, parts, part) ==
  IF str = <<>> THEN Append(parts, part)
  ELSE IF Head(str) = "." THEN SplitFrom(Tail(str), Append(parts, part), <<>>)
  ELSE SplitFrom(Tail(str), parts, Append(part, Head(str)))

split(str) == SplitFrom(str, <<>>, <<>>)

\* The extension taken as written, without toLowerCase.
fileExtensionAsWritten(filename) ==
  LET fileParts == split(filename)
  IN  fileParts[Len(fileParts)]

\* fileParts[fileParts.length - 1].toLowerCase()
fileExtension(filename) ==
  LET fileParts == split(filename)
  IN  toLowerCase(fileParts[Len(fileParts)])

ExtObj == <<"o", "b", "j">>
ExtGltf == <<"g", "l", "t", "f">>

\* Model3D descriptors: a file name and a materialInfo, which names a
\* material-definition file (mtl) or raw textures.
Filenames ==
  { <<"a", ".", "o", "b", "j">>,
    <<"a", ".", "v", "2", ".", "O", "B", "J">>,
    <<"b", ".", "g", "l", "t", "f">>,
    <<"b", ".", "G", "l", "T", "F">>,
    <<"c", ".", "f", "b", "x">>,
    <<"g", "l", "t", "f", ".", "z", "i", "p">> }
MaterialInfos ==
  { [mtl |-> TRUE, normalTexture |-> FALSE, renderBackface |-> FALSE],
    [mtl |-> FALSE, normalTexture |-> TRUE, renderBackface |-> TRUE],
    [mtl |-> FALSE, normalTexture |-> FALSE, renderBackface |-> FALSE] }
Models == [filename : Filenames, materialInfo : MaterialInfos]

\* What the loaders deliver.  An OBJ group has two child meshes, each with a
\* default material that carries the name the file gives it; the material
\* file defines "wood" only.  A glTF document has two scenes: one holds the
\* mesh n1, the other the group n2 with the mesh n3 below it.
Nodes == {"group", "c1", "c2", "root", "n1", "n2", "n3"}
\* gltfObject.scenes, each given by its children.
GltfScenes == << <<"n1">>, <<"n2">> >>
Children(node) ==
  CASE node = "group" -> <<"c1", "c2">>
    [] node = "root" -> GltfScenes[1] \o GltfScenes[2]
    [] node = "n2" -> <<"n3">>
    [] OTHER -> <<>>
NoMaterial == "none"
MatIds ==
  {"default_c1", "default_c2", "mtl_wood", "mtl_steel", "phong", "phong_c1",
   "phong_c2", "gltf_n1", "gltf_n3"}
DefaultMaterial(node) ==
  CASE node = "c1" -> "default_c1"
    [] node = "c2" -> "default_c2"
    [] node = "n1" -> "gltf_n1"
    [] node = "n3" -> "gltf_n3"
    [] OTHER -> NoMaterial
MaterialName(mat) == IF mat = "default_c1" THEN "wood" ELSE "steel"
\* The material-definition files a load may find: a file is given by the
\* names of the materials it defines.
MtlFiles == SUBSET {"wood", "steel"}
\* materialCreator.materials of a file
MtlMaterials(file) ==
  [name \in file |-> IF name = "wood" THEN "mtl_wood" ELSE "mtl_steel"]

NoTexture == 0
FreshNodes ==
  [n \in Nodes |-> [receiveShadow |-> FALSE, castShadow |-> FALSE,
                    material |-> DefaultMaterial(n)]]
FreshMats ==
  [m \in MatIds |-> [side |-> "FrontSide", envMap |-> NoTexture,
                     envMapIntensity |-> "default", needsUpdate |-> FALSE]]

LoadIds == 1..MaxLoads

VARIABLES
  loads,        \* every loadMesh call: its model, pipeline position and result
  environments, \* EnvironmentMapLoader: url -> the future cached for it
  fetches       \* every fetch started so far: <<kind, load or url>>

loadVars == <<loads, environments, fetches>>
vars == <<animVars, loadVars>>

NoLoad ==
  [pc |-> "none", model |-> [filename |-> <<>>,
                             materialInfo |-> [mtl |-> FALSE, normalTexture |-> FALSE,
                                               renderBackface |-> FALSE]],
   future |-> "none", hasObject |-> FALSE, object |-> NoValue,
   resultModel |-> [filename |-> <<>>,
                    materialInfo |-> [mtl |-> FALSE, normalTexture |-> FALSE,
                                      renderBackface |-> FALSE]],
   nodes |-> FreshNodes, mats |-> FreshMats,
   created |-> {}, environment |-> NoValue, joined |-> NoValue, failed |-> {},
   waited |-> FALSE]

Started == {l \in LoadIds : loads[l].pc # "none"}
NextLoad == Cardinality(Started) + 1

\* setReceiveShadows(children)
RECURSIVE setReceiveShadows(_, _)
setReceiveShadows(children, ld) ==
  IF children = <<>> THEN ld
  ELSE LET child == Head(children)
           marked == [ld EXCEPT !.nodes[child].receiveShadow = TRUE,
                                !.nodes[child].castShadow = TRUE]
       IN  setReceiveShadows(Tail(children),
                             setReceiveShadows(Children(child), marked))

\* The environment pass without the descent into child.children.
RECURSIVE trySetEnvironmentTextureTopLevel(_, _, _)
trySetEnvironmentTextureTopLevel(children, texture, ld) ==
  IF children = <<>> THEN ld
  ELSE LET child == Head(children)
           material == ld.nodes[child].material
           set == IF material # NoMaterial
                    THEN [ld EXCEPT !.mats[material].envMap = texture,
                                    !.mats[material].envMapIntensity = "0.0625",
                                    !.mats[material].needsUpdate = TRUE]
                    ELSE ld
       IN  trySetEnvironmentTextureTopLevel(Tail(children), texture, set)

\* trySetEnvironmentTexture(children, texture)
RECURSIVE trySetEnvironmentTexture(_, _, _)
trySetEnvironmentTexture(children, texture, ld) ==
  IF children = <<>> THEN ld
  ELSE LET child == Head(children)
           material == ld.nodes[child].material
           set == IF material # NoMaterial
                    THEN [ld EXCEPT !.mats[material].envMap = texture,
                                    !.mats[material].envMapIntensity = "0.0625",
                                    !.mats[material].needsUpdate = TRUE]
                    ELSE ld
       IN  trySetEnvironmentTexture(Tail(children), texture,
                                    trySetEnvironmentTexture(Children(child), texture, set))

\* trySetBackfaceRendering(children)
RECURSIVE trySetBackfaceRendering(_, _)
trySetBackfaceRendering(children, ld) ==
  IF children = <<>> THEN ld
  ELSE LET child == Head(children)
           material == ld.nodes[child].material
           set == IF material # NoMaterial
                    THEN [ld EXCEPT !.mats[material].side = "DoubleSide"]
                    ELSE ld
       IN  trySetBackfaceRendering(Tail(children),
                                   trySetBackfaceRendering(Children(child), set))

\* object.children.forEach(child => child.material = material)
RECURSIVE AssignAll(_, _, _)
AssignAll(children, material, ld) ==
  IF children = <<>> THEN ld
  ELSE AssignAll(Tail(children), material,
                 [ld EXCEPT !.nodes[Head(children)].material = material])

\* The forEach of the mtl branch without the test that the file has a
\* material of the child's name: the child is given what the lookup returns.
RECURSIVE AssignByNameUnchecked(_, _, _)
AssignByNameUnchecked(children, materials, ld) ==
  IF children = <<>> THEN ld
  ELSE LET child == Head(children)
           name == MaterialName(ld.nodes[child].material)
       IN  AssignByNameUnchecked(Tail(children), materials,
             [ld EXCEPT !.nodes[child].material =
                          IF name \in DOMAIN materials THEN materials[name]
                                                       ELSE NoMaterial])

\* The forEach of the mtl branch: a child takes the file's material of its
\* material's name when the file has one.
RECURSIVE AssignByName(_, _, _)
AssignByName(children, materials, ld) ==
  IF children = <<>> THEN ld
  ELSE LET child == Head(children)
           name == MaterialName(ld.nodes[child].material)
       IN  AssignByName(Tail(children), materials,
             IF name \in DOMAIN materials
               THEN [ld EXCEPT !.nodes[child].material = materials[name]]
               ELSE ld)

\* The raw-texture branch with the material constructed inside the forEach:
\* every child gets a material of its own.
loadMaterialRawPerChild(object, ld) ==
  LET made == [ld EXCEPT !.created = @ \cup {"phong_c1", "phong_c2"},
                         !.nodes["c1"].material = "phong_c1",
                         !.nodes["c2"].material = "phong_c2"]
  IN  IF ld.model.materialInfo.renderBackface
        THEN trySetBackfaceRendering(<<object>>, made)
        ELSE made

\* loadMaterial, raw-texture branch: one MeshPhongMaterial for all children.
loadMaterialRaw(object, ld) ==
  LET made == [ld EXCEPT !.created = @ \cup {"phong"}]
      assigned == AssignAll(Children(object), "phong", made)
  IN  IF ld.model.materialInfo.renderBackface
        THEN trySetBackfaceRendering(<<object>>, assigned)
        ELSE assigned

\* loadMaterial, mtl branch, once the material file has loaded.
loadMaterialMtl(object, materials, ld) ==
  LET made == [ld EXCEPT !.created = @ \cup {materials[n] : n \in DOMAIN materials}]
      assigned == AssignByName(Children(object), materials, made)
  IN  IF ld.model.materialInfo.renderBackface
        THEN trySetBackfaceRendering(<<object>>, assigned)
        ELSE assigned

\* resolve({object, model}) of loadMesh.
Resolve(ld, hasObject, object) ==
  [ld EXCEPT !.pc = "done", !.future = "resolved", !.hasObject = hasObject,
             !.object = object, !.resultModel = ld.model]

\* The rest of loadObj's onLoad callback after loadMaterial has resolved.
FinishObj(ld) == Resolve(setReceiveShadows(<<"group">>, ld), TRUE, "group")

\* The callback of environmentPromise.then in loadGlTF.
FinishGltf(ld, texture) ==
  LET children == Children("root")
      shadowed == setReceiveShadows(children, ld)
      lit == trySetEnvironmentTexture(children, texture, shadowed)
      sided == IF ld.model.materialInfo.renderBackface
                 THEN trySetBackfaceRendering(children, lit)
                 ELSE lit
  IN  Resolve(sided, TRUE, "root")

\* const environmentMapUrl in loadGlTF: the same for every file.
environmentMapUrl(file) == "assets/models/pbr/Soft_4TubeBank_2BlackFlags.exr"

AnimInit ==
  /\ now = 0
  /\ materialColor = InitialColor
  /\ calls = 0
  /\ activeEvents = <<>>
  /\ anims = [a \in AnimIds |-> NoAnim]
  /\ requested = <<>>
  /\ running = <<>>

AnimStep ==
  \/ \E event \in Events, duration \in Durations : ChangeColorLinearly(event, duration)
  \/ CreateOtherAnimation
  \/ BeginFrame
  \/ Tick
  \/ \E types \in SUBSET EventTypes, completeEvent \in BOOLEAN :
       ClearEvents(types, completeEvent)
  \/ \E a \in AnimIds, completeEvent \in BOOLEAN : DirectCancel(a, completeEvent)

----------------------------------------------------------------------------
(* EnvironmentMapLoader (the Environment Map Cache of section 4.4).        *)

\* loadEnvironment(url): the first call for a url starts the fetch and
\* stores the future; every later call gets the stored future.
loadEnvironment(url, by, env) ==
  IF url \in DOMAIN env.environments THEN env
  ELSE [environments |->
          [u \in DOMAIN env.environments \cup {url} |->
             IF u = url
               THEN [state |-> "inflight",
                     texture |-> Cardinality(DOMAIN env.environments) + 1]
               ELSE env.environments[u]],
        fetches |-> Append(env.fetches, [kind |-> "environment", by |-> by])]

\* How loadEnvironment answered: it started the fetch, joined the fetch in
\* flight, or found the stored future settled.
Answer(url, environs) ==
  IF url \notin DOMAIN environs THEN "fetch" ELSE environs[url].state

----------------------------------------------------------------------------
(* The operations of the asset loader.                                     *)

\* loadMesh(model): the executor runs up to its first await.
loadMesh(model) ==
  LET l == NextLoad
      fileExt == fileExtension(model.filename)
      ld == [NoLoad EXCEPT !.model = model, !.future = "pending"]
      url == environmentMapUrl(model.filename)
      env == loadEnvironment(url, l, [environments |-> environments, fetches |-> fetches])
  IN  /\ l \in LoadIds
      /\ IF fileExt = ExtObj
           THEN /\ loads' = [loads EXCEPT ![l] = [ld EXCEPT !.pc = "objFetch"]]
                /\ fetches' = Append(fetches, [kind |-> "geometry", by |-> l])
                /\ UNCHANGED environments
           ELSE IF fileExt = ExtGltf
             THEN /\ loads' = [loads EXCEPT ![l] =
                                 [ld EXCEPT !.pc = "gltfFetch", !.environment = url,
                                            !.joined = Answer(url, environments)]]
                  /\ environments' = env.environments
                  /\ fetches' = Append(env.fetches, [kind |-> "scene", by |-> l])
             ELSE /\ loads' = [loads EXCEPT ![l] = Resolve(ld, FALSE, NoValue)]
                  /\ UNCHANGED <<environments, fetches>>

\* OBJLoader calls onLoad: loadMaterial runs; with raw textures it resolves
\* at once and the rest of the callback follows.
ObjLoaded(l) ==
  /\ loads[l].pc = "objFetch"
  /\ IF loads[l].model.materialInfo.mtl
       THEN /\ loads' = [loads EXCEPT ![l].pc = "mtlFetch"]
            /\ fetches' = Append(fetches, [kind |-> "material", by |-> l])
       ELSE /\ loads' = [loads EXCEPT ![l] = FinishObj(loadMaterialRaw("group", @))]
            /\ fetches' =
                 LET diffuse == Append(fetches, [kind |-> "texture", by |-> l])
                 IN  IF loads[l].model.materialInfo.normalTexture
                       THEN Append(diffuse, [kind |-> "texture", by |-> l])
                       ELSE diffuse
  /\ UNCHANGED environments

\* The geometry fetch fails and an onError callback rejects the future.
ObjFailedRejects(l) ==
  /\ loads[l].pc = "objFetch"
  /\ loads' = [loads EXCEPT ![l].pc = "done", ![l].future = "rejected",
                            ![l].failed = @ \cup {"geometry"}]
  /\ UNCHANGED <<environments, fetches>>

\* The geometry fetch fails: OBJLoader.load was given no onError callback.
ObjFailed(l) ==
  /\ loads[l].pc = "objFetch"
  /\ loads' = [loads EXCEPT ![l].pc = "stalled", ![l].failed = @ \cup {"geometry"}]
  /\ UNCHANGED <<environments, fetches>>

\* MTLLoader calls onLoad with the materials of the file it has read.
MtlLoaded(l, file) ==
  /\ loads[l].pc = "mtlFetch"
  /\ loads' = [loads EXCEPT ![l] =
                 FinishObj(loadMaterialMtl("group", MtlMaterials(file), @))]
  /\ UNCHANGED <<environments, fetches>>

\* The material file fetch fails: MTLLoader.load was given no onError callback.
MtlFailed(l) ==
  /\ loads[l].pc = "mtlFetch"
  /\ loads' = [loads EXCEPT ![l].pc = "stalled", ![l].failed = @ \cup {"material"}]
  /\ UNCHANGED <<environments, fetches>>

\* The onLoad callback with its body run at once instead of in
\* environmentPromise.then: the texture is whatever the cache holds by then.
GltfLoadedNoWait(l) ==
  /\ loads[l].pc = "gltfFetch"
  /\ LET e == environments[loads[l].environment]
     IN  loads' = [loads EXCEPT ![l] =
                     FinishGltf(@, IF e.state = "resolved" THEN e.texture
                                                           ELSE NoTexture)]
  /\ UNCHANGED <<environments, fetches>>

\* GLTFLoader calls onLoad: the then-callback runs at once when the
\* environment future is resolved, and waits for it otherwise.
GltfLoaded(l) ==
  /\ loads[l].pc = "gltfFetch"
  /\ LET e == environments[loads[l].environment]
     IN  loads' = [loads EXCEPT ![l] =
                     IF e.state = "resolved" THEN FinishGltf(@, e.texture)
                     ELSE [@ EXCEPT !.pc = "envWait", !.waited = TRUE]]
  /\ UNCHANGED <<environments, fetches>>

\* The scene document fetch fails: GLTFLoader.load was given no onError callback.
GltfFailed(l) ==
  /\ loads[l].pc = "gltfFetch"
  /\ loads' = [loads EXCEPT ![l].pc = "stalled", ![l].failed = @ \cup {"scene"}]
  /\ UNCHANGED <<environments, fetches>>

\* The environment fetch completes: every then-callback waiting on the
\* future runs.
EnvironmentLoaded(url) ==
  /\ url \in DOMAIN environments
  /\ environments[url].state = "inflight"
  /\ environments' = [environments EXCEPT ![url].state = "resolved"]
  /\ loads' = [l \in LoadIds |->
                 IF loads[l].pc = "envWait" /\ loads[l].environment = url
                   THEN FinishGltf(loads[l], environments[url].texture)
                   ELSE loads[l]]
  /\ UNCHANGED fetches

\* The environment fetch fails: the future never resolves, and the
\* then-callbacks of loadGlTF, which handle no rejection, never run.
EnvironmentFailed(url) ==
  /\ url \in DOMAIN environments
  /\ environments[url].state = "inflight"
  /\ environments' = [environments EXCEPT ![url].state = "failed"]
  /\ UNCHANGED <<loads, fetches>>

LoadInit ==
  /\ loads = [l \in LoadIds |-> NoLoad]
  /\ environments = <<>>
  /\ fetches = <<>>

LoadStep ==
  \/ \E model \in Models : loadMesh(model)
  \/ \E l \in LoadIds : ObjLoaded(l)
  \/ \E l \in LoadIds : ObjFailed(l)
  \/ \E l \in LoadIds, file \in MtlFiles : MtlLoaded(l, file)
  \/ \E l \in LoadIds : MtlFailed(l)
  \/ \E l \in LoadIds : GltfLoaded(l)
  \/ \E l \in LoadIds : GltfFailed(l)
  \/ \E url \in DOMAIN environments : EnvironmentLoaded(url)
  \/ \E url \in DOMAIN environments : EnvironmentFailed(url)

----------------------------------------------------------------------------
(* Specifications: the animation core and the asset loader do not share    *)
(* state, and each is checked on its own.                                  *)

Init == AnimInit /\ LoadInit

AnimNext == AnimStep /\ UNCHANGED loadVars
AnimSpec == Init /\ [][AnimNext]_vars

LoadNext == LoadStep /\ UNCHANGED animVars
LoadSpec == Init /\ [][LoadNext]_vars

\* The animation core with a frame scheduler that eventually runs every
\* requested callback and a clock that advances while it may.  Tick is
\* enabled exactly when a callback of the current frame has not run, and a
\* frame holds finitely many callbacks, so weak fairness of Tick says that
\* every frame is run to its end: again and again no callback is waiting.
AnimLiveSpec ==
  /\ AnimSpec
  /\ []<>BetweenFrames
  /\ WF_vars(BeginFrame /\ UNCHANGED loadVars)

----------------------------------------------------------------------------
(* Properties of the Active Event Registry.                                *)

InSeq(x, seq) == \E k \in 1..Len(seq) : seq[k] = x
Last(seq) == seq[Len(seq)]

C2_SweepCancelsEachMatchingOnce ==
  [][\A types \in SUBSET EventTypes, completeEvent \in BOOLEAN :
       ClearEvents(types, completeEvent) =>
         LET Matches(a) == anims[a].type \in types
             matching == SelectSeq(activeEvents, Matches)
             done == clearEvents(types, completeEvent, Here)
         IN  /\ [k \in 1..Len(done.calls) |-> done.calls[k].anim] = matching
             /\ \A k \in 1..Len(done.calls) :
                  done.calls[k].flag = completeEvent /\ done.calls[k].listed
             /\ \A k \in 1..Len(activeEvents') : ~Matches(activeEvents'[k])
             /\ \A k \in 1..Len(matching) :
                  anims'[matching[k]].state \notin {"Pending", "Running"}
             /\ matching = <<>> => UNCHANGED vars]_vars

\* Two color animations, registered one after the other and both in flight,
\* have both been cancelled with the snap and removed from the list.
C2_Witness ==
  \E a, b \in AnimIds :
    /\ a < b
    /\ anims[a].type = "ColorChange" /\ anims[b].type = "ColorChange"
    /\ anims[a].state = "Cancelled" /\ anims[b].state = "Cancelled"
    /\ anims[a].log = <<0, Unit>> /\ anims[b].log = <<0, Unit>>
    /\ activeEvents = <<>>

----------------------------------------------------------------------------
(* Properties of the Material Color Changer and the Animation Driver.      *)

AtTarget(items, target, colors) ==
  \A k \in 1..Len(items) : colors[items[k].material] = target

\* C3: changeColor with durationMs <= 0 sets every item of the working set
\* to its target color before it returns, creates no Animation Driver
\* instance, registers no active event and requests no frame callback.
C3_InstantChangeReachesTarget ==
  [][\A event \in Events, duration \in Durations :
       (duration <= 0 /\ ChangeColorLinearly(event, duration)) =>
         /\ AtTarget(getAnimatableItems(event, materialColor), event.targetColor,
                     materialColor')
         /\ anims' = anims
         /\ activeEvents' = activeEvents
         /\ requested' = requested]_vars

\* The one color animation the sweep clearEvents({ColorChange}) cancels,
\* when the list holds exactly one that is in flight.
OnlyColorInFlight(a) ==
  /\ InSeq(a, activeEvents)
  /\ anims[a].type = "ColorChange" /\ InFlight(a)
  /\ \A b \in AnimIds \ {a} :
       InSeq(b, activeEvents) => anims[b].type # "ColorChange"

\* C4: cancelling a Pending or Running color animation with snapToFinal =
\* true invokes onProgress(1) exactly once and leaves every material of the
\* batch exactly at the target color; with snapToFinal = false it invokes no
\* onProgress and every material keeps its value; and a frame callback of the
\* cancelled animation changes no material color afterwards.
C4_CancelSnapsToTarget ==
  [][/\ \A a \in AnimIds, completeEvent \in BOOLEAN :
          ( /\ anims[a].type = "ColorChange" /\ InFlight(a)
            /\ \/ DirectCancel(a, completeEvent)
               \/ OnlyColorInFlight(a) /\ ClearEvents({"ColorChange"}, completeEvent) )
          => /\ anims'[a].state = "Cancelled"
             /\ IF completeEvent
                  THEN /\ anims'[a].log = Append(anims[a].log, Unit)
                       /\ AtTarget(anims[a].items, anims[a].target, materialColor')
                  ELSE /\ anims'[a].log = anims[a].log
                       /\ materialColor' = materialColor
     /\ (Tick /\ anims[Head(running)].state = "Cancelled")
          => /\ materialColor' = materialColor
             /\ anims'[Head(running)].log = anims[Head(running)].log]_vars

\* C6: every progress p delivered to a color batch sets each channel of each
\* item's material to start + p * delta, where start is the color the
\* material had when changeColor was called and delta = target - start, both
\* fixed at the call; at p = 1 the applied color equals the target.
C6_InterpolationEndsAtTarget ==
  [][/\ \A event \in Events, duration \in Durations :
          (duration > 0 /\ ChangeColorLinearly(event, duration)) =>
            LET items == anims'[NextAnim].items
            IN  \A k \in 1..Len(items) :
                  /\ items[k].startColor = materialColor[items[k].material]
                  /\ \A c \in 1..3 :
                       items[k].deltaColor[c] =
                         FSub(event.targetColor[c], items[k].startColor[c])
     /\ (Tick /\ InFlight(Head(running)) /\ anims[Head(running)].type = "ColorChange")
          => LET a == Head(running)
                 items == anims[a].items
                 p == Last(anims'[a].log)
             IN  /\ anims'[a].items = items
                 /\ \A k \in 1..Len(items) :
                      LET applied == materialColor'[items[k].material]
                      IN  /\ \A c \in 1..3 :
                               applied[c] = FAdd(items[k].startColor[c],
                                                 FMul(p, items[k].deltaColor[c]))
                          /\ p = Unit => applied = anims[a].target]_vars

\* C10: a frame callback that fires after its animation was cancelled
\* invokes no onProgress and requests no further tick; cancel, with either
\* flag, on an animation that is Completed or Cancelled invokes no onProgress
\* and changes no state.
C10_NothingAfterCancel ==
  [][/\ (Tick /\ anims[Head(running)].state = "Cancelled")
          => /\ anims' = anims
             /\ materialColor' = materialColor
             /\ requested' = requested
             /\ activeEvents' = activeEvents
     /\ \A a \in AnimIds, completeEvent \in BOOLEAN :
          (DirectCancel(a, completeEvent) /\ ~InFlight(a)) => UNCHANGED vars
     /\ \A types \in SUBSET EventTypes, completeEvent \in BOOLEAN :
          ClearEvents(types, completeEvent) =>
            \A a \in AnimIds : ~InFlight(a) =>
              anims'[a] = anims[a]]_vars

\* A color animation was cancelled after its first tick, the callback it
\* had requested has since been run, and another animation completed later.
C10_Witness ==
  \E a, b \in AnimIds :
    /\ anims[a].type = "ColorChange" /\ anims[a].state = "Cancelled"
    /\ anims[a].log = <<0>>
    /\ ~InSeq(a, requested) /\ ~InSeq(a, running)
    /\ anims[b].state = "Completed"

\* The number of entries of the active-event list that belong to animation a.
Entries(a) == Cardinality({k \in 1..Len(activeEvents) : activeEvents[k] = a})

\* C11: in every reachable state an animation has exactly one entry in its
\* owner's active-event list if it is Pending or Running and none if it is
\* Completed or Cancelled, across createAnimation, frame ticks, direct cancel
\* calls and clearEvents sweeps; and a sweep removes the entries of the
\* animations it cancels and of no other.
C11_OneEntryWhileInFlight ==
  [][/\ \A a \in AnimIds :
          /\ InFlight(a)' => Entries(a)' = 1
          /\ anims'[a].state \in {"None", "Completed", "Cancelled"} => Entries(a)' = 0
     /\ \A types \in SUBSET EventTypes, completeEvent \in BOOLEAN :
          ClearEvents(types, completeEvent) =>
            LET done == clearEvents(types, completeEvent, Here)
                swept == {done.calls[k].anim : k \in 1..Len(done.calls)}
            IN  \A a \in AnimIds :
                  (InSeq(a, activeEvents) /\ ~InSeq(a, activeEvents')) <=> a \in swept]_vars

\* C12: the progress values one animation delivers to onProgress lie in
\* [0, 1] and never decrease; the first tick delivers 0; and the value 1 is
\* delivered at most once in the animation's life, by completion or by a
\* cancel that snaps to the final value.
C12_ProgressMonotoneInUnitRange ==
  \A a \in AnimIds :
    LET log == anims[a].log
    IN  /\ \A k \in 1..Len(log) : 0 <= log[k] /\ log[k] <= Unit
        /\ \A j, k \in 1..Len(log) : j < k => log[j] <= log[k]
        /\ Cardinality({k \in 1..Len(log) : log[k] = Unit}) <= 1
        /\ (anims[a].state \in {"Running", "Completed"}) => log[1] = 0
        /\ anims[a].state = "Completed" => Last(log) = Unit

\* An animation whose last tick came after more time than its duration has
\* completed with three values delivered, the last clamped to 1; and a color
\* animation was cancelled with the snap after its first tick.
C12_Witness ==
  \E a, b \in AnimIds :
    /\ anims[a].state = "Completed" /\ Len(anims[a].log) = 3
    /\ now - anims[a].startTime > anims[a].duration
    /\ anims[b].state = "Cancelled" /\ anims[b].log = <<0, Unit>>

\* The time between two frames, and the time of the last frame the clock
\* of the model reaches.
Step == CHOOSE dt \in FrameSteps : TRUE
LastFrameTime == now + Step * ((MaxTime - now) \div Step)

\* The clock of the model runs long enough for animation a to finish.
CanFinish(a) ==
  \/ anims[a].state = "Pending" /\ now + Step + anims[a].duration <= LastFrameTime
  \/ anims[a].state = "Running" /\ anims[a].startTime + anims[a].duration <= LastFrameTime

\* Animation a has completed: 1 was the last progress delivered, its entry
\* has left the active-event list and no frame callback of it is requested.
CompletedAndGone(a) ==
  /\ anims[a].state = "Completed"
  /\ Last(anims[a].log) = Unit
  /\ ~InSeq(a, activeEvents)
  /\ ~InSeq(a, requested) /\ ~InSeq(a, running)

\* C13: an animation created with durationMs > 0 that is never cancelled
\* eventually reaches Completed, provided the frame scheduler eventually
\* runs every requested callback and the clock advances: onProgress(1) is
\* delivered, its entry is removed from the active-event list and no further
\* frame is requested.
C13_UncancelledAnimationCompletes ==
  \A a \in AnimIds :
    CanFinish(a) ~> (anims[a].state = "Cancelled" \/ CompletedAndGone(a))

\* Two animations, a color change and one of another subsystem, have both
\* run to completion.
C13_Witness ==
  \E a, b \in AnimIds :
    /\ anims[a].type = "ColorChange" /\ CompletedAndGone(a)
    /\ anims[b].type = "Other" /\ CompletedAndGone(b)
    /\ anims[a].duration > 0 /\ Len(anims[a].log) = 3

----------------------------------------------------------------------------
(* Properties of the asset loader.                                         *)

FetchesOf(kind) == {k \in 1..Len(fetches) : fetches[k].kind = kind}
FetchesBy(l) == {k \in 1..Len(fetches) : fetches[k].by = l}

\* The nodes of the subtree below (and including) the given nodes.
RECURSIVE Subtree(_)
Subtree(nodes) ==
  IF nodes = <<>> THEN {}
  ELSE {Head(nodes)} \cup Subtree(Children(Head(nodes))) \cup Subtree(Tail(nodes))

\* The materials the nodes of a resolved load's subtree reference.
MaterialsOf(l) ==
  {loads[l].nodes[n].material : n \in Subtree(<<loads[l].object>>)} \ {NoMaterial}

ResolvedWith(l, object) ==
  loads[l].future = "resolved" /\ loads[l].hasObject /\ loads[l].object = object

\* C5: any number of loadAsset calls for gltf descriptors, in any
\* interleaving of their scene-document loads with the environment fetch,
\* cause exactly one environment fetch, also when a call comes after the
\* fetch resolved, and every material of every resulting subtree references
\* the texture instance of that fetch.
C5_OneEnvironmentFetch ==
  /\ Cardinality(FetchesOf("environment")) <= 1
  /\ (\E l \in LoadIds : loads[l].pc \in {"gltfFetch", "envWait"} \/ ResolvedWith(l, "root"))
       => Cardinality(FetchesOf("environment")) = 1
  /\ \A l1, l2 \in LoadIds :
       (ResolvedWith(l1, "root") /\ ResolvedWith(l2, "root")) =>
         \A m1 \in MaterialsOf(l1), m2 \in MaterialsOf(l2) :
           /\ loads[l1].mats[m1].envMap # NoTexture
           /\ loads[l1].mats[m1].envMap = loads[l2].mats[m2].envMap

\* Two gltf loads were both issued before the environment texture resolved,
\* the first starting the fetch and the second joining it, and both have
\* resolved with a subtree.
C5_Witness ==
  \E l1, l2 \in LoadIds :
    /\ ResolvedWith(l1, "root") /\ ResolvedWith(l2, "root")
    /\ loads[l1].joined = "fetch" /\ loads[l2].joined = "inflight"

\* The file names by the extension a reader sees in them.
ObjNames == { <<"a", ".", "o", "b", "j">>, <<"a", ".", "v", "2", ".", "O", "B", "J">> }
GltfNames == { <<"b", ".", "g", "l", "t", "f">>, <<"b", ".", "G", "l", "T", "F">> }

\* C7: loadAsset for a descriptor whose lowercased extension is neither obj
\* nor gltf resolves with sceneSubtree absent and the descriptor unchanged,
\* raises no error and starts no fetch; the match ignores case, so OBJ and
\* GlTF start the geometry and scene-document fetches like obj and gltf.
C7_UnknownExtensionResolvesEmpty ==
  \A l \in Started :
    LET name == loads[l].model.filename
    IN  /\ name \notin (ObjNames \cup GltfNames) =>
             /\ loads[l].future = "resolved"
             /\ ~loads[l].hasObject
             /\ loads[l].resultModel = loads[l].model
             /\ FetchesBy(l) = {}
        /\ name \in ObjNames => \E k \in FetchesBy(l) : fetches[k].kind = "geometry"
        /\ name \in GltfNames => \E k \in FetchesBy(l) : fetches[k].kind = "scene"

\* A load of c.fbx has resolved without a subtree, and a load whose
\* extension is written OBJ has delivered one.
C7_Witness ==
  \E l1, l2 \in LoadIds :
    /\ loads[l1].model.filename = <<"c", ".", "f", "b", "x">>
    /\ loads[l1].future = "resolved" /\ ~loads[l1].hasObject
    /\ loads[l2].model.filename = <<"a", ".", "v", "2", ".", "O", "B", "J">>
    /\ ResolvedWith(l2, "group")

\* C8: loadAsset for an obj descriptor with raw textures creates exactly one
\* material, and when the future resolves every child surface node of the
\* subtree references that material instance.
C8_RawTexturesShareOneMaterial ==
  \A l \in LoadIds :
    (ResolvedWith(l, "group") /\ ~loads[l].model.materialInfo.mtl) =>
      /\ Cardinality(loads[l].created) = 1
      /\ \A k \in 1..Len(Children("group")) :
           loads[l].nodes[Children("group")[k]].material \in loads[l].created

\* An obj load with raw textures has resolved.
C8_Witness ==
  \E l \in LoadIds :
    /\ ResolvedWith(l, "group") /\ ~loads[l].model.materialInfo.mtl
    /\ loads[l].model.materialInfo.normalTexture

\* The fetches of load l that have failed.
FailedFetches(l) ==
  loads[l].failed \cup
    (IF /\ loads[l].environment \in DOMAIN environments
        /\ environments[loads[l].environment].state = "failed"
       THEN {"environment"} ELSE {})

\* C9: once a fetch of a loadAsset pipeline has failed (geometry, material
\* file, scene document or environment texture), its future is neither
\* resolved nor rejected, in that state and in every later one.
C9_FailedFetchNeverSettles ==
  \A l \in Started : FailedFetches(l) # {} => loads[l].future = "pending"

\* The geometry fetch of one load failed, its future is pending, and a load
\* issued after it has resolved.
C9_Witness ==
  \E l1, l2 \in LoadIds :
    /\ l1 < l2
    /\ "geometry" \in loads[l1].failed /\ loads[l1].future = "pending"
    /\ loads[l2].future = "resolved" /\ loads[l2].hasObject

\* The nodes of a gltf result below its container node.
Flattened == Subtree(Children("root"))

\* The shadow-flag pass, the environment-map assignment and the double-sided
\* pass, when asked for, have been applied below the container node of ld.
PassesApplied(ld, texture) ==
  /\ \A n \in Flattened : ld.nodes[n].receiveShadow /\ ld.nodes[n].castShadow
  /\ \A n \in Flattened :
       LET m == ld.nodes[n].material
       IN  m # NoMaterial =>
             /\ ld.mats[m].envMap = texture /\ texture # NoTexture
             /\ ld.mats[m].envMapIntensity = "0.0625"
             /\ ld.mats[m].needsUpdate
             /\ ld.mats[m].side = IF ld.model.materialInfo.renderBackface
                                    THEN "DoubleSide" ELSE "FrontSide"

\* C14: the future of a gltf load resolves only in a step that finds both
\* the scene document loaded and the environment texture resolved, whichever
\* of the two comes first; the shadow-flag pass, the environment-map
\* assignment and the optional double-sided pass have then been applied; and
\* a resolved future is never settled or changed again.
C14_GltfResolvesAfterBoth ==
  [][\A l \in LoadIds :
       /\ ( /\ loads[l].pc \in {"gltfFetch", "envWait"}
            /\ loads'[l].future # "pending" )
          => LET url == loads[l].environment
             IN  /\ loads'[l].future = "resolved"
                 /\ loads[l].pc = "envWait" \/ GltfLoaded(l)
                 /\ environments'[url].state = "resolved"
                 /\ ResolvedWith(l, "root")'
                 /\ PassesApplied(loads'[l], environments[url].texture)
       /\ loads[l].pc \in {"gltfFetch", "envWait"} => loads[l].future = "pending"
       /\ loads[l].future = "resolved" => loads'[l] = loads[l]]_vars

\* Two gltf loads have resolved: for one the scene document came first and
\* it waited for the environment texture, for the other the texture was
\* there before its scene document; one of them asked for double sides.
C14_Witness ==
  \E l1, l2 \in LoadIds :
    /\ ResolvedWith(l1, "root") /\ loads[l1].waited
    /\ ResolvedWith(l2, "root") /\ ~loads[l2].waited
    /\ loads[l1].model.materialInfo.renderBackface
         # loads[l2].model.materialInfo.renderBackface

\* C15: when a load resolves with a subtree, from an obj file or from a gltf
\* file, every node of that subtree, its root node included, is marked both
\* shadow-casting and shadow-receiving.
C15_EveryNodeCastsAndReceives ==
  \A l \in LoadIds :
    (loads[l].future = "resolved" /\ loads[l].hasObject) =>
      \A n \in Subtree(<<loads[l].object>>) :
        loads[l].nodes[n].receiveShadow /\ loads[l].nodes[n].castShadow

----------------------------------------------------------------------------
(* Properties of a batch of the Material Color Changer.                    *)

\* C16: a changeColor call with durationMs > 0 creates exactly one animation
\* and appends exactly one active event, of category ColorChange, however
\* many items the batch holds, and requests one frame; every tick of that
\* animation delivers one progress value and sets every item of the batch
\* to its color at that value before the tick returns.
C16_OneDriverForTheBatch ==
  [][/\ \A event \in Events, duration \in Durations :
          (duration > 0 /\ ChangeColorLinearly(event, duration)) =>
            /\ NextAnim \notin Created
            /\ Created' = Created \cup {NextAnim}
            /\ anims'[NextAnim].type = "ColorChange"
            /\ anims'[NextAnim].items = getAnimatableItems(event, materialColor)
            /\ activeEvents' = Append(activeEvents, NextAnim)
            /\ requested' = Append(requested, NextAnim)
            /\ \A b \in Created : anims'[b] = anims[b]
     /\ (Tick /\ InFlight(Head(running)) /\ anims[Head(running)].type = "ColorChange")
          => LET a == Head(running)
                 items == anims[a].items
             IN  /\ Len(anims'[a].log) = Len(anims[a].log) + 1
                 /\ \A k \in 1..Len(items) :
                      materialColor'[items[k].material] =
                        ItemColor(items[k], Last(anims'[a].log))
                 /\ \A m \in ColorMaterials :
                      (\A k \in 1..Len(items) : items[k].material # m)
                        => materialColor'[m] = materialColor[m]]_vars

\* The one animation of a batch of two items has been ticked twice, and
\* both materials are at their color of half the way.
C16_Witness ==
  \E a \in AnimIds :
    /\ Created = {a} /\ activeEvents = <<a>>
    /\ anims[a].type = "ColorChange" /\ Len(anims[a].items) = 2
    /\ anims[a].log = <<0, Unit \div 2>>
    /\ \A k \in 1..2 :
         /\ materialColor[anims[a].items[k].material]
               = ItemColor(anims[a].items[k], Unit \div 2)
         /\ materialColor[anims[a].items[k].material] # anims[a].items[k].startColor

\* C17: the startColor and deltaColor of the items of an animation never
\* change while it is in flight; a tick applies start + progress * delta of
\* that snapshot also when another party has changed the material's color
\* since the last tick; and the animation ends exactly at its own target.
C17_SnapshotOutlivesOtherWriters ==
  [][/\ \A a \in AnimIds : InFlight(a) => anims'[a].items = anims[a].items
     /\ (Tick /\ InFlight(Head(running)) /\ anims[Head(running)].type = "ColorChange")
          => LET a == Head(running)
                 items == anims[a].items
                 p == Last(anims'[a].log)
             IN  /\ \A k \in 1..Len(items) :
                      materialColor'[items[k].material] = ItemColor(items[k], p)
                 /\ anims'[a].state = "Completed" =>
                      AtTarget(items, anims[a].target, materialColor')]_vars

----------------------------------------------------------------------------
(* Properties of the material-definition branch of the asset loader.       *)

\* C18: when the material-definition file of an obj load has loaded, each
\* child whose material name the file defines has the file's material of
\* that name, each other child keeps its default material, and the future
\* resolves with the subtree, whatever number of names the file lacks.
C18_UnmatchedNamesKeepDefault ==
  [][\A l \in LoadIds, file \in MtlFiles :
       MtlLoaded(l, file) =>
         /\ ResolvedWith(l, "group")'
         /\ \A k \in 1..Len(Children("group")) :
              LET child == Children("group")[k]
                  name == MaterialName(DefaultMaterial(child))
              IN  loads'[l].nodes[child].material =
                    IF name \in file THEN MtlMaterials(file)[name]
                                     ELSE DefaultMaterial(child)]_vars

\* Two obj loads with material files have resolved: in one the file
\* defined the material of the first child and not of the second, in the
\* other it defined neither.
C18_Witness ==
  \E l1, l2 \in LoadIds :
    /\ \A l \in {l1, l2} : ResolvedWith(l, "group") /\ loads[l].model.materialInfo.mtl
    /\ loads[l1].nodes["c1"].material = "mtl_wood"
    /\ loads[l1].nodes["c2"].material = "default_c2"
    /\ loads[l2].nodes["c1"].material = "default_c1"
    /\ loads[l2].nodes["c2"].material = "default_c2"

----------------------------------------------------------------------------
(* Properties of concurrent color animations.                              *)

\* Animations a and b are color animations with a material in common.
ShareMaterial(a, b) ==
  /\ anims[a].type = "ColorChange" /\ anims[b].type = "ColorChange"
  /\ \E j \in 1..Len(anims[a].items), k \in 1..Len(anims[b].items) :
       anims[a].items[j].material = anims[b].items[k].material

\* C19: changeColor cancels and removes no existing active event: the list
\* it finds stays as a prefix of the list it leaves, no existing animation
\* changes state and no requested callback is dropped; two color animations
\* in flight together both write their materials on every tick; and when
\* the later of two animations that share a material delivers its final
\* onProgress(1), its materials are at its target.
C19_ConcurrentColorChangesLastWins ==
  [][/\ \A event \in Events, duration \in Durations :
          ChangeColorLinearly(event, duration) =>
            /\ SubSeq(activeEvents', 1, Len(activeEvents)) = activeEvents
            /\ SubSeq(requested', 1, Len(requested)) = requested
            /\ \A b \in Created : anims'[b] = anims[b]
     /\ (Tick /\ InFlight(Head(running)) /\ anims[Head(running)].type = "ColorChange")
          => LET a == Head(running)
                 items == anims[a].items
             IN  /\ \A k \in 1..Len(items) :
                      materialColor'[items[k].material] =
                        ItemColor(items[k], Last(anims'[a].log))
                 /\ ( /\ anims'[a].state = "Completed"
                      /\ \E b \in AnimIds \ {a} :
                           ShareMaterial(a, b) /\ anims[b].state = "Completed" )
                    => AtTarget(items, anims[a].target, materialColor')]_vars

----------------------------------------------------------------------------
(* Properties of the working set of the Material Color Changer.            *)

\* The materials of the meshes among the nodes, in visit order.
RECURSIVE MeshMaterials(_)
MeshMaterials(nodes) ==
  IF nodes = <<>> THEN <<>>
  ELSE (IF isMesh(Head(nodes))
          THEN (IF IsArray(Head(nodes)) THEN MeshMaterial(Head(nodes))
                                        ELSE <<MeshMaterial(Head(nodes))>>)
          ELSE <<>>) \o MeshMaterials(Tail(nodes))

\* Every material an event offers: its list, then those of its subtree.
Offered(event) ==
  (IF event.hasMaterials THEN event.materials ELSE <<>>)
    \o (IF event.hasRootObject THEN MeshMaterials(SceneOrder) ELSE <<>>)

\* C20: the working set holds one item for each offered material that
\* supports flat color, in order, and none for the other materials and for
\* the nodes that are not meshes; a changeColor call with durationMs > 0
\* whose working set is empty still creates an animation, registers a
\* ColorChange active event and requests a frame, and neither the call nor
\* the ticks of that animation change a material color.
C20_EmptyWorkingSetStillAnimates ==
  [][/\ \A event \in Events, duration \in Durations :
          ChangeColorLinearly(event, duration) =>
            LET items == getAnimatableItems(event, materialColor)
            IN  /\ [k \in 1..Len(items) |-> items[k].material]
                     = SelectSeq(Offered(event), LAMBDA m : m \in ColorMaterials)
                /\ (duration > 0 /\ items = <<>>) =>
                     /\ anims'[NextAnim].state = "Pending"
                     /\ anims'[NextAnim].type = "ColorChange"
                     /\ anims'[NextAnim].items = <<>>
                     /\ activeEvents' = Append(activeEvents, NextAnim)
                     /\ requested' = Append(requested, NextAnim)
                     /\ materialColor' = materialColor
     /\ ( /\ Tick /\ InFlight(Head(running))
          /\ anims[Head(running)].type = "ColorChange"
          /\ anims[Head(running)].items = <<>> )
          => /\ materialColor' = materialColor
             /\ Len(anims'[Head(running)].log) = Len(anims[Head(running)].log) + 1]_vars

\* A color animation over an empty working set has run to completion, and
\* a call for the subtree has set the two color materials it holds.
C20_Witness ==
  \E a \in AnimIds :
    /\ anims[a].type = "ColorChange" /\ anims[a].items = <<>>
    /\ anims[a].state = "Completed" /\ anims[a].log = <<0, Unit \div 2, Unit>>
    /\ activeEvents = <<>>
    /\ materialColor["m1"] = Dim /\ materialColor["m2"] # White

====
